---- MODULE Spec2Model ----
(***************************************************************************)
(* A model of the property-bag library: the PropertyBag node with its two  *)
(* memoised read operations (property_bag.py) and the recursive descent of *)
(* PropertyBagParser._parse_tree over an indentation tree                  *)
(* (property_bag_parser.py).                                               *)
(*                                                                         *)
(* A bag is an object; its identity is its index in the sequence bags.     *)
(* The two functools.lru_cache tables decorate functions of the class, so  *)
(* there is one table per decorated method for the whole process, keyed by *)
(* (bag identity, item); each table is kept in recency order, least        *)
(* recently used first.                                                    *)
(***************************************************************************)
EXTENDS Integers, Sequences, FiniteSets, TLC

\* ---------------------------------------------------------------- bounds
MaxBags == 3
MaxOps == 5
MaxBuildOps == 4
MaxLines == 3
MaxEntries == 1
MaxNested == 2
MaxIndent == 3
MaxTreeLines == 3
MaxGuardLines == 2
MaxGrammarLines == 2
MaxAnonEntries == 2
MaxFrozenOps == 5
MaxReads == 1

\* ------------------------------------------------------ program constants
ContainsCacheSize == 16
GetItemCacheSize == 32

Names == {<<"a">>, <<"b">>}
Values == {<<"7">>, <<"x">>}
Defaults == {<<"d">>}
Digits == {"0", "1", "2", "3", "4", "5", "6", "7", "8", "9"}
None == 0

\* bags, containsCache, getitemCache: the heap of PropertyBag objects and the
\* two lru_cache tables.  nops, last: the number of library calls made by the
\* caller and what the latest one returned.  tree, pos, parents,
\* abstract_props, pc: the input of PropertyBagParser.parse, the next line
\* of it, the two scope stacks and the position of the parser.  made: for
\* every line the parser turned into a bag, what it created (a record of the
\* run, read by the properties only).  lines, nodes, tree_stack: the input of
\* IndentationTree.parse, the IndentationTree objects made so far (the root
\* first) and its stack of open ancestors.
VARIABLES bags, containsCache, getitemCache, nops, last,
          tree, pos, parents, abstract_props, pc, made,
          lines, nodes, tree_stack

libvars == <<bags, containsCache, getitemCache, nops, last>>
treevars == <<lines, nodes, tree_stack>>
parservars_but_pc == <<tree, pos, parents, abstract_props, made, lines, nodes, tree_stack>>
parservars == <<tree, pos, parents, abstract_props, pc, made, lines, nodes, tree_stack>>
vars == <<bags, containsCache, getitemCache, nops, last,
          tree, pos, parents, abstract_props, pc, made, lines, nodes, tree_stack>>

\* ------------------------------------------------------------ PropertyBag
EmptyMap == [n \in {} |-> None]

Overlay(f, g) ==
    [n \in (DOMAIN f) \cup (DOMAIN g) |-> IF n \in DOMAIN g THEN g[n] ELSE f[n]]

\* PropertyBag.__init__: a fresh object with the given name, value and bases,
\* and no children.
PropertyBag(name, value, base_props) ==
    [name |-> name, value |-> value, bases |-> base_props, children |-> EmptyMap]

BagIds(bs) == 1..Len(bs)

\* PropertyBag.add: self._children[prop.name] = prop
add(bs, self, prop) ==
    [bs EXCEPT ![self].children =
        Overlay(bs[self].children, [n \in {bs[prop].name} |-> prop])]

RECURSIVE flatten_properties(_, _)

\* flatten_properties with the two loops swapped: the bases overlay the
\* direct children
flatten_children_first(bs, self) ==
    LET RECURSIVE merge(_, _)
        merge(i, properties) ==
            IF i > Len(bs[self].bases) THEN properties
            ELSE merge(i + 1,
                       Overlay(properties, flatten_properties(bs, bs[self].bases[i])))
    IN  merge(1, bs[self].children)

\* PropertyBag.flatten_properties: the bases in declared order, each base's
\* own flattened map overlaying what came before, then the direct children.
\* It is a property that is recomputed at every read.
flatten_properties(bs, self) ==
    LET RECURSIVE merge(_, _)
        merge(i, properties) ==
            IF i > Len(bs[self].bases) THEN properties
            ELSE merge(i + 1,
                       Overlay(properties, flatten_properties(bs, bs[self].bases[i])))
    IN  Overlay(merge(1, EmptyMap), bs[self].children)

\* PropertyBag.count
count(bs, self) == Cardinality(DOMAIN flatten_properties(bs, self))

\* ------------------------------------------------------ functools.lru_cache
\* A table is a sequence of entries [bag, item, res], least recently used
\* first.  The key of an entry is (bag, item): a PropertyBag hashes by identity.
CacheFind(cache, self, item) ==
    LET hits == {i \in 1..Len(cache) : cache[i].bag = self /\ cache[i].item = item}
    IN  IF hits = {} THEN 0 ELSE CHOOSE i \in hits : TRUE

\* a hit moves the entry to the most recently used end
CacheTouch(cache, i) ==
    [j \in 1..Len(cache) |->
        IF j < i THEN cache[j] ELSE IF j < Len(cache) THEN cache[j + 1] ELSE cache[i]]

\* a miss stores the result, evicting the least recently used entry of a full table
CachePut(cache, entry, maxsize) ==
    IF Len(cache) >= maxsize THEN Append(Tail(cache), entry) ELSE Append(cache, entry)

\* the body of PropertyBag.__contains__
contains_body(bs, self, item) == item \in DOMAIN flatten_properties(bs, self)

\* `item in self`: PropertyBag.__contains__ behind @lru_cache(maxsize=16).
\* The result is [res, cc]: the answer and the table afterwards.  i is the
\* place of the key in the table (0: a miss), r the value the body computed.
contains_miss(cc, self, item, r) ==
    [res |-> r,
     cc |-> CachePut(cc, [bag |-> self, item |-> item, res |-> r], ContainsCacheSize)]

contains_at(bs, cc, self, item, i) ==
    IF i # 0 THEN [res |-> cc[i].res, cc |-> CacheTouch(cc, i)]
    ELSE contains_miss(cc, self, item, contains_body(bs, self, item))

contains(bs, cc, self, item) ==
    contains_at(bs, cc, self, item, CacheFind(cc, self, item))

\* `self[item]`: PropertyBag.__getitem__ behind @lru_cache(maxsize=32).
\* The result is [res, cc, gc]: the answer (a bag or None) and both tables
\* afterwards.  The body reads the bases, last one first, through the
\* memoised operations: walk is its loop at base k, walk_step what it does
\* with the answer m of `item in base`.
RECURSIVE getitem(_, _, _, _, _)
RECURSIVE walk(_, _, _, _, _, _)

walk_step(bs, gc, bases, k, item, m) ==
    IF m.res THEN getitem(bs, m.cc, gc, bases[k], item)
    ELSE walk(bs, m.cc, gc, bases, k - 1, item)

walk(bs, cc, gc, bases, k, item) ==
    IF k = 0 THEN [res |-> None, cc |-> cc, gc |-> gc]
    ELSE walk_step(bs, gc, bases, k, item, contains(bs, cc, bases[k], item))

\* getitem_body that reads the bases in declared order, first one first
getitem_body_declared_order(bs, cc, gc, self, item) ==
    IF item \in DOMAIN bs[self].children
    THEN [res |-> bs[self].children[item], cc |-> cc, gc |-> gc]
    ELSE walk(bs, cc, gc,
              [k \in 1..Len(bs[self].bases) |-> bs[self].bases[Len(bs[self].bases) + 1 - k]],
              Len(bs[self].bases), item)

getitem_body(bs, cc, gc, self, item) ==
    IF item \in DOMAIN bs[self].children
    THEN [res |-> bs[self].children[item], cc |-> cc, gc |-> gc]
    ELSE walk(bs, cc, gc, bs[self].bases, Len(bs[self].bases), item)

getitem_miss(self, item, r) ==
    [res |-> r.res, cc |-> r.cc,
     gc |-> CachePut(r.gc, [bag |-> self, item |-> item, res |-> r.res],
                     GetItemCacheSize)]

getitem_at(bs, cc, gc, self, item, i) ==
    IF i # 0 THEN [res |-> gc[i].res, cc |-> cc, gc |-> CacheTouch(gc, i)]
    ELSE getitem_miss(self, item, getitem_body(bs, cc, gc, self, item))

getitem(bs, cc, gc, self, item) ==
    getitem_at(bs, cc, gc, self, item, CacheFind(gc, self, item))

\* int(str) for the values of the model: a non-empty run of digits converts,
\* anything else raises ValueError.  A conversion answers [ok, res]; so that
\* answers of all kinds can be compared, the integer n is written <<"int", n>>
\* and an exception is the one-element text of its name.
RECURSIVE DigitsValue(_)
DigitsValue(s) ==
    IF s = <<>> THEN 0
    ELSE 10 * DigitsValue(SubSeq(s, 1, Len(s) - 1))
         + (CHOOSE k \in 0..9 : ToString(k) = s[Len(s)])

int(s) ==
    IF s # <<>> /\ \A i \in 1..Len(s) : s[i] \in Digits
    THEN [ok |-> TRUE, res |-> <<"int", DigitsValue(s)>>]
    ELSE [ok |-> FALSE, res |-> <<"ValueError">>]

\* the convertor of the callers: appends a marker to the text
Convertor(s) == [ok |-> TRUE, res |-> s \o <<"+">>]
\* get hands the value over as it is
Plain(s) == [ok |-> TRUE, res |-> s]

\* PropertyBag.get / getint / convert: `name in self`, then self[name].value
\* handed to the conversion; reading .value of None raises AttributeError.
\* The result is [ok, res, cc, gc]; m is the answer of `name in self`, g the
\* answer of self[name], v the converted value.
converted(v, g) == [ok |-> v.ok, res |-> v.res, cc |-> g.cc, gc |-> g.gc]

\* the conversion a wrapper applies to the value: none (get), int (getint),
\* the caller's convertor (convert)
apply(conv, s) ==
    IF conv = "int" THEN int(s)
    ELSE IF conv = "convertor" THEN Convertor(s)
    ELSE Plain(s)

value_of(bs, conv, g) ==
    IF g.res = None
    THEN [ok |-> FALSE, res |-> <<"AttributeError">>, cc |-> g.cc, gc |-> g.gc]
    ELSE converted(apply(conv, bs[g.res].value), g)

value_or_default(bs, gc, self, name, conv, default, m) ==
    IF m.res THEN value_of(bs, conv, getitem(bs, m.cc, gc, self, name))
    ELSE [ok |-> TRUE, res |-> default, cc |-> m.cc, gc |-> gc]

get(bs, cc, gc, self, name, default) ==
    value_or_default(bs, gc, self, name, "get", default, contains(bs, cc, self, name))

getint(bs, cc, gc, self, name, default) ==
    value_or_default(bs, gc, self, name, "int", default, contains(bs, cc, self, name))

convert(bs, cc, gc, self, name, default) ==
    value_or_default(bs, gc, self, name, "convertor", default,
                     contains(bs, cc, self, name))

\* ------------------------------------------- line grammar of the parser
\* A text is a sequence of one-character strings.
IsAt(s, i, c) == i <= Len(s) /\ s[i] = c

\* str.strip()
RECURSIVE lstrip(_)
lstrip(s) == IF s # <<>> /\ s[1] = " " THEN lstrip(Tail(s)) ELSE s
RECURSIVE rstrip(_)
rstrip(s) ==
    IF s # <<>> /\ s[Len(s)] = " " THEN rstrip(SubSeq(s, 1, Len(s) - 1)) ELSE s
strip(s) == lstrip(rstrip(s))

\* str(int) of a natural number
RECURSIVE str(_)
str(n) ==
    LET d == CHOOSE c \in Digits : c = ToString(n % 10)
    IN  IF n < 10 THEN <<d>> ELSE Append(str(n \div 10), d)

\* the captures of (::(?P<inherits>.*?))* on a text that starts with "::":
\* each clause is the shortest text up to the next "::" or the end
RECURSIVE captures(_)
captures(rest) ==
    LET t == SubSeq(rest, 3, Len(rest))
        cuts == {j \in 0..Len(t) : IsAt(t, j + 1, ":") /\ IsAt(t, j + 2, ":")}
    IN  IF cuts = {} THEN <<t>>
        ELSE LET j == CHOOSE k \in cuts : \A l \in cuts : k <= l
             IN  <<SubSeq(t, 1, j)>> \o captures(SubSeq(t, j + 1, Len(t)))

\* LINE_REGEX_PATTERN matched against a line: the optional "::" is taken
\* when a name of at least one character is left after it; the name is the
\* shortest text followed by "=", by "::" or by the end of the line; after
\* "=" the value is everything to the end (no group when nothing is left);
\* otherwise the inheritance clauses follow.  value = None stands for the
\* group that did not take part.  An empty line does not match.
line_regex(text) ==
    LET abstract == Len(text) >= 3 /\ text[1] = ":" /\ text[2] = ":"
        body == IF abstract THEN SubSeq(text, 3, Len(text)) ELSE text
        ends == {k \in 1..Len(body) :
                    \/ k = Len(body)
                    \/ IsAt(body, k + 1, "=")
                    \/ IsAt(body, k + 1, ":") /\ IsAt(body, k + 2, ":")}
        k == CHOOSE e \in ends : \A f \in ends : e <= f
        rest == SubSeq(body, k + 1, Len(body))
        equals == IsAt(rest, 1, "=")
    IN  IF body = <<>> THEN [matched |-> FALSE]
        ELSE [matched |-> TRUE,
              abstract |-> abstract,
              name |-> SubSeq(body, 1, k),
              equals |-> equals,
              hasvalue |-> equals /\ Len(rest) > 1,
              value |-> IF equals /\ Len(rest) > 1 THEN SubSeq(rest, 2, Len(rest))
                        ELSE <<>>,
              inherits |-> IF equals \/ rest = <<>> THEN <<>> ELSE captures(rest)]

\* ------------------------------------------------------ IndentationTree
\* The tree handed to PropertyBagParser.parse, as the list of its nodes below
\* the root in document order, each with its normalised indent (0 for the
\* children of the root) and its text.  A node's subtree is the run of deeper
\* nodes that follows it.
SubtreeEnd(t, i) ==
    LET stops == {j \in (i + 1)..Len(t) : t[j].indent <= t[i].indent}
    IN  IF stops = {} THEN Len(t) ELSE (CHOOSE j \in stops : \A k \in stops : j <= k) - 1

\* IndentationTree.children of node i, in order
RECURSIVE ChildrenFrom(_, _, _)
ChildrenFrom(t, i, j) ==
    IF j > SubtreeEnd(t, i) THEN <<>>
    ELSE IF t[j].indent = t[i].indent + 1 THEN <<j>> \o ChildrenFrom(t, i, j + 1)
    ELSE ChildrenFrom(t, i, j + 1)
children(t, i) == ChildrenFrom(t, i, i + 1)

\* what IndentationTree.parse followed by normalize_indentation can return
IsTree(t) ==
    /\ Len(t) > 0 => t[1].indent = 0
    /\ \A i \in 1..(Len(t) - 1) : t[i + 1].indent <= t[i].indent + 1

\* ------------------------------------------------------ PropertyBagParser
RootName == <<"r", "o", "o", "t">>
AbstractName == <<"a", "b", "s", "t", "r", "a", "c", "t">>

\* lines 170-173 and 178-182: one scope stack searched from its top; the
\* first bag that answers `base_name in bag` gives bag[base_name] and ends
\* the search.  The result is [res, cc, gc].
RECURSIVE search_stack(_, _, _, _, _, _)
search_hit(bs, gc, stack, k, base_name, m) ==
    IF m.res THEN getitem(bs, m.cc, gc, stack[k], base_name)
    ELSE search_stack(bs, m.cc, gc, stack, k - 1, base_name)

search_stack(bs, cc, gc, stack, k, base_name) ==
    IF k = 0 THEN [res |-> None, cc |-> cc, gc |-> gc]
    ELSE search_hit(bs, gc, stack, k, base_name, contains(bs, cc, stack[k], base_name))

\* lines 175-182: the abstract stack is searched when the concrete search
\* gave nothing
search_abstract(bs, holders, base_name, concrete) ==
    IF concrete.res # None THEN concrete
    ELSE search_stack(bs, concrete.cc, concrete.gc, holders, Len(holders), base_name)

\* lines 167-182: the search of one base name
find_base(bs, cc, gc, stack, holders, base_name) ==
    search_abstract(bs, holders, base_name,
                    search_stack(bs, cc, gc, stack, Len(stack), base_name))

\* lines 165-187: the bases of a collection, clause by clause; a clause that
\* finds nothing is skipped with a warning.  found keeps base_prop of every
\* clause.  The result is [bases, found, cc, gc].
RECURSIVE resolve_bases(_, _, _, _, _, _)
\* resolve_join with the base put behind the bases of the later clauses
resolve_join_reversed(r, more) ==
    [bases |-> more.bases \o (IF r.res # None THEN <<r.res>> ELSE <<>>),
     found |-> <<r.res>> \o more.found,
     cc |-> more.cc, gc |-> more.gc]

resolve_join(r, more) ==
    [bases |-> (IF r.res # None THEN <<r.res>> ELSE <<>>) \o more.bases,
     found |-> <<r.res>> \o more.found,
     cc |-> more.cc, gc |-> more.gc]

resolve_rest(bs, stack, holders, inherits, r) ==
    resolve_join(r, resolve_bases(bs, r.cc, r.gc, stack, holders, Tail(inherits)))

resolve_bases(bs, cc, gc, stack, holders, inherits) ==
    IF inherits = <<>> THEN [bases |-> <<>>, found |-> <<>>, cc |-> cc, gc |-> gc]
    ELSE resolve_rest(bs, stack, holders, inherits,
                      find_base(bs, cc, gc, stack, holders, Head(inherits)))

\* decl_name with the number of direct children for a blank name
decl_name_direct(bs, stack, m) ==
    IF strip(m.name) # <<>> THEN strip(m.name)
    ELSE str(Cardinality(DOMAIN bs[stack[Len(stack)]].children))

\* line 128: the stripped name, or the parent's count for a blank one
decl_name(bs, stack, m) ==
    IF strip(m.name) # <<>> THEN strip(m.name) ELSE str(count(bs, stack[Len(stack)]))

\* lines 131-136: the stripped base names, a blank one standing for the
\* declaration's own name
inherit_names(m, name) ==
    [k \in 1..Len(m.inherits) |->
        IF strip(m.inherits[k]) # <<>> THEN strip(m.inherits[k]) ELSE name]

\* lines 155-159: the texts of the nested lines, a space between them
RECURSIVE join_texts(_, _, _)
join_texts(t, kids, value) ==
    IF kids = <<>> THEN value
    ELSE join_texts(t, Tail(kids),
                    (IF value # <<>> THEN value \o <<" ">> ELSE value) \o t[Head(kids)].text)

\* lines 149-160: a value declaration makes a leaf and adds it to the parent
parse_value(bs, stack, name, value) ==
    add(Append(bs, PropertyBag(name, value, <<>>)), stack[Len(stack)], Len(bs) + 1)

\* lines 189-196: the new collection is added to the holder of the level when
\* abstract, to the parent otherwise
register(bs, stack, holders, is_abstract, prop) ==
    IF is_abstract THEN add(bs, holders[Len(holders)], prop)
    ELSE add(bs, stack[Len(stack)], prop)

NoBag == [bag |-> None]

Texts ==
    { <<"a">>, <<"b">>,
      <<":", ":", "a">>,
      <<"a", ":", ":">>,
      <<"b", ":", ":", "a">>,
      <<"a", "=", "7">>,
      <<":", ":", "a", "=", "7">>,
      <<"a", "=">> }

\* the trees of at most n nodes over the texts: a tree of n - 1 nodes and
\* one more node, at most one level deeper than the node before it
RECURSIVE Inputs(_)
Inputs(n) ==
    IF n = 0 THEN {<<>>}
    ELSE Inputs(n - 1) \cup
         UNION {{Append(t, [indent |-> d, text |-> x]) :
                    d \in 0..(IF t = <<>> THEN 0 ELSE t[Len(t)].indent + 1), x \in Texts} :
                t \in {s \in Inputs(n - 1) : Len(s) = n - 1}}

ParseInit ==
    /\ tree \in Inputs(MaxLines)
    /\ pos = 1
    /\ parents = <<>>
    /\ abstract_props = <<>>
    /\ pc = "start"
    /\ made = [i \in 1..Len(tree) |-> NoBag]
    /\ bags = <<>>
    /\ containsCache = <<>>
    /\ getitemCache = <<>>
    /\ nops = 0
    /\ last = [op |-> "init"]
    /\ lines = <<>>
    /\ nodes = <<>>
    /\ tree_stack = <<>>

\* PropertyBagParser.parse up to the first loop test of _parse_tree: the root,
\* the concrete stack holding it, and the holder of the top level
parse ==
    /\ pc = "start"
    /\ bags' = <<PropertyBag(RootName, <<>>, <<>>), PropertyBag(AbstractName, <<>>, <<>>)>>
    /\ parents' = <<1>>
    /\ abstract_props' = <<2>>
    /\ pc' = "loop"
    /\ UNCHANGED <<containsCache, getitemCache, nops, last, tree, treevars, pos, made>>

\* the frame that is running iterates the nodes one level below its own node
Level == Len(abstract_props) - 1
AtChild == pc = "loop" /\ pos <= Len(tree) /\ tree[pos].indent = Level
Top(stack) == stack[Len(stack)]

\* what the loop records of the line it has turned into the bag prop
Made(prop, name, found) ==
    [made EXCEPT ![pos] = [bag |-> prop, name |-> name, parent |-> Top(parents),
                           holder |-> Top(abstract_props), found |-> found]]

\* lines 149-160 for the value declaration m with the name and the value
ValueStep(name, value) ==
    /\ bags' = parse_value(bags, parents, name, value)
    /\ made' = Made(Len(bags) + 1, name, <<>>)
    /\ pos' = SubtreeEnd(tree, pos) + 1
    /\ UNCHANGED <<containsCache, getitemCache, nops, last, tree, treevars, parents,
                   abstract_props, pc>>

\* LeafStep that keeps the value as the line has it
LeafStep_untrimmed(m) ==
    /\ m.equals /\ m.hasvalue
    /\ ValueStep(decl_name(bags, parents, m), m.value)

LeafStep(m) ==
    /\ m.equals /\ m.hasvalue
    /\ ValueStep(decl_name(bags, parents, m), strip(m.value))

MultilineStep(m) ==
    /\ m.equals /\ ~m.hasvalue
    /\ ValueStep(decl_name(bags, parents, m),
                 join_texts(tree, children(tree, pos), <<>>))

\* lines 189-200 and 116 for the collection m with its name and the outcome
\* r of the resolution of its bases
\* CollectionMade that gives the declaration up when a clause found nothing:
\* the line and the lines nested under it make no bag
CollectionMade_or_abort(m, name, r) ==
    IF \E k \in 1..Len(r.found) : r.found[k] = None
    THEN /\ pos' = SubtreeEnd(tree, pos) + 1
         /\ containsCache' = r.cc
         /\ getitemCache' = r.gc
         /\ UNCHANGED <<bags, parents, abstract_props, made, nops, last, tree, treevars, pc>>
    ELSE /\ bags' = Append(register(Append(bags, PropertyBag(name, <<>>, r.bases)),
                                    parents, abstract_props, m.abstract, Len(bags) + 1),
                           PropertyBag(AbstractName, <<>>, <<>>))
         /\ containsCache' = r.cc
         /\ getitemCache' = r.gc
         /\ parents' = Append(parents, Len(bags) + 1)
         /\ abstract_props' = Append(abstract_props, Len(bags) + 2)
         /\ made' = Made(Len(bags) + 1, name, r.found)
         /\ pos' = pos + 1
         /\ UNCHANGED <<nops, last, tree, treevars, pc>>

CollectionMade(m, name, r) ==
    /\ bags' = Append(register(Append(bags, PropertyBag(name, <<>>, r.bases)),
                               parents, abstract_props, m.abstract, Len(bags) + 1),
                      PropertyBag(AbstractName, <<>>, <<>>))
    /\ containsCache' = r.cc
    /\ getitemCache' = r.gc
    /\ parents' = Append(parents, Len(bags) + 1)
    /\ abstract_props' = Append(abstract_props, Len(bags) + 2)
    /\ made' = Made(Len(bags) + 1, name, r.found)
    /\ pos' = pos + 1
    /\ UNCHANGED <<nops, last, tree, treevars, pc>>

\* CollectionNamed that registers the new bag before it resolves the bases
CollectionNamed_registered_first(m, name) ==
    CollectionMade(m, name,
                   resolve_bases(register(Append(bags, PropertyBag(name, <<>>, <<>>)),
                                          parents, abstract_props, m.abstract, Len(bags) + 1),
                                 containsCache, getitemCache, parents,
                                 abstract_props, inherit_names(m, name)))

CollectionNamed(m, name) ==
    CollectionMade(m, name,
                   resolve_bases(bags, containsCache, getitemCache, parents,
                                 abstract_props, inherit_names(m, name)))

CollectionStep(m) ==
    /\ ~m.equals
    /\ CollectionNamed(m, decl_name(bags, parents, m))

\* one iteration of the loop for `name = value`: nested lines are ignored
ParseLeaf == AtChild /\ LeafStep(line_regex(tree[pos].text))

\* one iteration of the loop for `name =`: the nested lines are the value
ParseMultiline == AtChild /\ MultilineStep(line_regex(tree[pos].text))

\* one iteration of the loop for a collection, up to the first loop test of
\* the recursive call: the bases are resolved, the bag is created and
\* registered, and the call pushes the bag and the holder of the new level
ParseCollection == AtChild /\ CollectionStep(line_regex(tree[pos].text))

\* Return that pops the holder of the level and leaves the concrete stack
Return_keeps_parents ==
    /\ pc = "loop"
    /\ IF pos > Len(tree) THEN TRUE ELSE tree[pos].indent < Level
    /\ abstract_props' = SubSeq(abstract_props, 1, Len(abstract_props) - 1)
    /\ pc' = IF Len(abstract_props) = 1 THEN "done" ELSE "loop"
    /\ UNCHANGED <<bags, containsCache, getitemCache, nops, last, tree, treevars, pos, made,
                   parents>>

\* lines 202-203: the nodes of the frame are exhausted; both stacks are popped
Return ==
    /\ pc = "loop"
    /\ IF pos > Len(tree) THEN TRUE ELSE tree[pos].indent < Level
    /\ parents' = SubSeq(parents, 1, Len(parents) - 1)
    /\ abstract_props' = SubSeq(abstract_props, 1, Len(abstract_props) - 1)
    /\ pc' = IF Len(abstract_props) = 1 THEN "done" ELSE "loop"
    /\ UNCHANGED <<bags, containsCache, getitemCache, nops, last, tree, treevars, pos, made>>

ParseNext == parse \/ ParseLeaf \/ ParseMultiline \/ ParseCollection \/ Return

SpecParse == ParseInit /\ [][ParseNext]_vars

\* the inputs with two collections and a third that can inherit from both:
\* each a top-level line with at most MaxEntries value lines nested under it
HeadTexts ==
    { <<"a">>, <<":", ":", "a">>, <<"b">>, <<":", ":", "b">> }

DerivedTexts ==
    { <<"c", ":", ":", "a", ":", ":", "b">>,
      <<"c", ":", ":", "b", ":", ":", "a">>,
      <<"c", ":", ":", "a">> }

EntryTexts == { <<"x", "=", "7">>, <<"y", "=">> }

RECURSIVE Entries(_)
Entries(n) ==
    IF n = 0 THEN {<<>>}
    ELSE Entries(n - 1) \cup
         {Append(es, x) : es \in {e \in Entries(n - 1) : Len(e) = n - 1}, x \in EntryTexts}

Block(head, es) ==
    <<[indent |-> 0, text |-> head]>>
        \o [k \in 1..Len(es) |-> [indent |-> 1, text |-> es[k]]]

MultiInputs ==
    {Block(h1, e1) \o Block(h2, e2) \o Block(d, e3) :
        h1 \in HeadTexts, h2 \in HeadTexts, d \in DerivedTexts,
        e1 \in Entries(MaxEntries), e2 \in Entries(MaxEntries),
        e3 \in Entries(MaxEntries)}

MultiInit ==
    /\ tree \in MultiInputs
    /\ pos = 1
    /\ parents = <<>>
    /\ abstract_props = <<>>
    /\ pc = "start"
    /\ made = [i \in 1..Len(tree) |-> NoBag]
    /\ bags = <<>>
    /\ containsCache = <<>>
    /\ getitemCache = <<>>
    /\ nops = 0
    /\ last = [op |-> "init"]
    /\ lines = <<>>
    /\ nodes = <<>>
    /\ tree_stack = <<>>

SpecMulti == MultiInit /\ [][ParseNext]_vars

\* the inputs around one value declaration: the declaration at the top level
\* or inside a collection, at most MaxNested lines nested under it (directly
\* or one level deeper; a nested line can be blank), and a line after it
ValueTexts ==
    { <<"a", " ", "=", " ", "7", " ">>,
      <<"a", " ", "=">>,
      <<"a", " ", "=", " ">> }

NestedTexts == { <<>>, <<"x">>, <<"y", " ">> }

EnclosingText == <<"b">>

RECURSIVE NestedLines(_)
NestedLines(n) ==
    IF n = 0 THEN {<<>>}
    ELSE NestedLines(n - 1) \cup
         {Append(ls, [indent |-> d, text |-> x]) :
             ls \in {l \in NestedLines(n - 1) : Len(l) = n - 1},
             d \in (IF n = 1 THEN {1} ELSE {1, 2}),
             x \in NestedTexts}

Shifted(ls, by) == [k \in 1..Len(ls) |-> [indent |-> ls[k].indent + by, text |-> ls[k].text]]

ValueInputs ==
    {Shifted(<<[indent |-> 0, text |-> v]>> \o ls, depth) \o after :
         v \in ValueTexts, ls \in NestedLines(MaxNested), depth \in {0, 1},
         after \in {<<>>, <<[indent |-> 0, text |-> EnclosingText]>>}}

ValueInit ==
    /\ tree \in {IF t[1].indent = 0 THEN t
                  ELSE <<[indent |-> 0, text |-> EnclosingText]>> \o t : t \in ValueInputs}
    /\ pos = 1
    /\ parents = <<>>
    /\ abstract_props = <<>>
    /\ pc = "start"
    /\ made = [i \in 1..Len(tree) |-> NoBag]
    /\ bags = <<>>
    /\ containsCache = <<>>
    /\ getitemCache = <<>>
    /\ nops = 0
    /\ last = [op |-> "init"]
    /\ lines = <<>>
    /\ nodes = <<>>
    /\ tree_stack = <<>>

SpecValue == ValueInit /\ [][ParseNext]_vars

\* the inputs for the line grammar: lines with "=", with "::", and with both
\* in either order
GrammarTexts ==
    { <<"a", "=", "c">>,
      <<"a", "=">>,
      <<"a", ":", ":", "b", "=", "c">>,
      <<"a", "=", "b", ":", ":", "c">>,
      <<"a", ":", ":", "b">>,
      <<"b">> }

RECURSIVE GrammarInputs(_)
GrammarInputs(n) ==
    IF n = 0 THEN {<<>>}
    ELSE GrammarInputs(n - 1) \cup
         UNION {{Append(t, [indent |-> d, text |-> x]) :
                    d \in 0..(IF t = <<>> THEN 0 ELSE t[Len(t)].indent + 1),
                    x \in GrammarTexts} :
                t \in {s \in GrammarInputs(n - 1) : Len(s) = n - 1}}

GrammarInit ==
    /\ tree \in GrammarInputs(MaxGrammarLines)
    /\ pos = 1
    /\ parents = <<>>
    /\ abstract_props = <<>>
    /\ pc = "start"
    /\ made = [i \in 1..Len(tree) |-> NoBag]
    /\ bags = <<>>
    /\ containsCache = <<>>
    /\ getitemCache = <<>>
    /\ nops = 0
    /\ last = [op |-> "init"]
    /\ lines = <<>>
    /\ nodes = <<>>
    /\ tree_stack = <<>>

SpecGrammar == GrammarInit /\ [][ParseNext]_vars

\* the inputs with declarations of a blank name: at most two collections, the
\* second with the first as its base, each with at most MaxAnonEntries
\* declarations nested under it, and at most one declaration after them at
\* the top level
AnonHeadTexts == { <<"a">>, <<"b", ":", ":", "a">> }

AnonEntryTexts ==
    { <<"x", "=", "7">>,
      <<":", ":", " ", "=", "7">>,
      <<":", ":", " ", "=">> }

RECURSIVE AnonEntries(_)
AnonEntries(n) ==
    IF n = 0 THEN {<<>>}
    ELSE AnonEntries(n - 1) \cup
         {Append(es, x) : es \in {e \in AnonEntries(n - 1) : Len(e) = n - 1},
                          x \in AnonEntryTexts}

AnonBlocks ==
    {<<>>} \cup {Block(h, es) : h \in AnonHeadTexts, es \in AnonEntries(MaxAnonEntries)}

AnonInputs ==
    {b1 \o b2 \o after :
        b1 \in AnonBlocks, b2 \in AnonBlocks,
        after \in {<<>>} \cup {<<[indent |-> 0, text |-> x]>> : x \in AnonEntryTexts}}

AnonInit ==
    /\ tree \in AnonInputs
    /\ pos = 1
    /\ parents = <<>>
    /\ abstract_props = <<>>
    /\ pc = "start"
    /\ made = [i \in 1..Len(tree) |-> NoBag]
    /\ bags = <<>>
    /\ containsCache = <<>>
    /\ getitemCache = <<>>
    /\ nops = 0
    /\ last = [op |-> "init"]
    /\ lines = <<>>
    /\ nodes = <<>>
    /\ tree_stack = <<>>

SpecAnon == AnonInit /\ [][ParseNext]_vars

\* the inputs with a collection nested in a collection that has a base: the
\* first collection with at most one declaration nested under it, the second
\* with or without the first as its base and at most one collection nested
\* under it
FirstTexts == { <<"a">> }
FirstNestedTexts == { <<"x">>, <<"x", "=", "7">>, <<"x", "=">> }
SecondTexts == { <<"b", ":", ":", "a">>, <<"b">> }
SecondNestedTexts ==
    { <<"y", ":", ":", "x">>, <<"x", ":", ":">>, <<"y", ":", ":", "a">>, <<"y">> }

InheritInputs ==
    {Block(h1, e1) \o Block(h2, e2) :
        h1 \in FirstTexts, e1 \in {<<>>} \cup {<<x>> : x \in FirstNestedTexts},
        h2 \in SecondTexts, e2 \in {<<>>} \cup {<<x>> : x \in SecondNestedTexts}}

InheritInit ==
    /\ tree \in InheritInputs
    /\ pos = 1
    /\ parents = <<>>
    /\ abstract_props = <<>>
    /\ pc = "start"
    /\ made = [i \in 1..Len(tree) |-> NoBag]
    /\ bags = <<>>
    /\ containsCache = <<>>
    /\ getitemCache = <<>>
    /\ nops = 0
    /\ last = [op |-> "init"]
    /\ lines = <<>>
    /\ nodes = <<>>
    /\ tree_stack = <<>>

SpecInherit == InheritInit /\ [][ParseNext]_vars

\* ------------------------------------------------- IndentationTree.parse
\* INDENT_REGEX_PATTERN: the leading white space of the line and the rest
indent_regex(line) ==
    [indent |-> SubSeq(line, 1, Len(line) - Len(lstrip(line))),
     text |-> lstrip(line)]

\* IndentationTree.__init__; children holds the nodes' places in nodes
IndentationTree(indent, text) ==
    [indent |-> indent, text |-> text, children |-> <<>>]

\* lines 73-74 with `>` for `>=`: a line stays open for a line of its own indent
RECURSIVE pop_to_strict(_, _, _)
pop_to_strict(ns, st, indent) ==
    IF ns[st[Len(st)]].indent > indent
    THEN pop_to_strict(ns, SubSeq(st, 1, Len(st) - 1), indent)
    ELSE st

\* lines 73-74: the stack is popped while its top is not shallower than the line
RECURSIVE pop_to(_, _, _)
pop_to(ns, st, indent) ==
    IF ns[st[Len(st)]].indent >= indent
    THEN pop_to(ns, SubSeq(st, 1, Len(st) - 1), indent)
    ELSE st

\* normalize_indentation that hands its own indent on to the children
normalize_flat(ns, n, current_indent) ==
    [k \in 1..Len(ns) |-> [ns[k] EXCEPT !.indent = current_indent]]

\* IndentationTree.normalize_indentation of node n: the node, then its
\* children in order, one deeper
RECURSIVE normalize_indentation(_, _, _)
RECURSIVE normalize_children(_, _, _)
normalize_children(ns, kids, indent) ==
    IF kids = <<>> THEN ns
    ELSE normalize_children(normalize_indentation(ns, Head(kids), indent),
                            Tail(kids), indent)

normalize_indentation(ns, n, current_indent) ==
    normalize_children([ns EXCEPT ![n].indent = current_indent],
                       ns[n].children, current_indent + 1)

\* the lines: up to MaxIndent blanks and a text, which can be empty
Spaces(k) == [i \in 1..k |-> " "]
RawLines == {Spaces(k) \o t : k \in 0..MaxIndent, t \in {<<"x">>, <<>>}}
LineInputs == UNION {[1..k -> RawLines] : k \in 0..MaxTreeLines}

\* IndentationTree.parse up to the loop: the root sentinel, alone on the stack
TreeInit ==
    /\ lines \in LineInputs
    /\ nodes = <<IndentationTree(-1, <<>>)>>
    /\ tree_stack = <<1>>
    /\ pc = "tree"
    /\ tree = <<>>
    /\ pos = 1
    /\ parents = <<>>
    /\ abstract_props = <<>>
    /\ made = <<>>
    /\ bags = <<>>
    /\ containsCache = <<>>
    /\ getitemCache = <<>>
    /\ nops = 0
    /\ last = [op |-> "init"]

\* lines 76-79: the node becomes the last child of the top st[Len(st)] of
\* the popped stack and is pushed
Attach(node, st) ==
    /\ nodes' = [Append(nodes, node) EXCEPT
                    ![st[Len(st)]].children = Append(@, Len(nodes) + 1)]
    /\ tree_stack' = Append(st, Len(nodes) + 1)

\* lines 64-79 for the match m of the line
LineStep(m) ==
    Attach(IndentationTree(Len(m.indent), m.text),
           pop_to(nodes, tree_stack, Len(m.indent)))

\* one iteration of the loop of IndentationTree.parse: the line after the
\* ones that have their node
ParseLine ==
    /\ pc = "tree"
    /\ Len(nodes) <= Len(lines)
    /\ LineStep(indent_regex(lines[Len(nodes)]))
    /\ UNCHANGED <<bags, containsCache, getitemCache, nops, last,
                   tree, pos, parents, abstract_props, pc, made, lines>>

\* line 81: the lines are exhausted; root.normalize_indentation(-1)
Normalize ==
    /\ pc = "tree"
    /\ Len(nodes) = Len(lines) + 1
    /\ nodes' = normalize_indentation(nodes, 1, -1)
    /\ pc' = "treedone"
    /\ UNCHANGED <<bags, containsCache, getitemCache, nops, last,
                   tree, pos, parents, abstract_props, made, lines, tree_stack>>

TreeNext == ParseLine \/ Normalize

SpecTree == TreeInit /\ [][TreeNext]_vars

\* --------------------------------------- the guards of the entry points
\* An argument is None or a value; `not x` holds of None and of an empty
\* list or string.
NoneArg == [none |-> TRUE, val |-> <<>>]
Arg(v) == [none |-> FALSE, val |-> v]
not(x) == x.none \/ x.val = <<>>

\* COMMENT_REGEX_PATTERN: the content before the first "//"
comment_content(line) ==
    LET cuts == {j \in 0..Len(line) : IsAt(line, j + 1, "/") /\ IsAt(line, j + 2, "/")}
    IN  IF cuts = {} THEN line
        ELSE SubSeq(line, 1, CHOOSE j \in cuts : \A l \in cuts : j <= l)

\* len(l.strip()) > 0
NotBlank(l) == Len(strip(l)) > 0

RECURSIVE Map_comment_content(_)
Map_comment_content(ls) ==
    IF ls = <<>> THEN <<>>
    ELSE <<comment_content(Head(ls))>> \o Map_comment_content(Tail(ls))

RECURSIVE Map_rstrip(_)
Map_rstrip(ls) ==
    IF ls = <<>> THEN <<>> ELSE <<rstrip(Head(ls))>> \o Map_rstrip(Tail(ls))

Raised(e) == [ok |-> FALSE, res |-> <<e>>]
Result(v) == [ok |-> TRUE, res |-> v]

\* IndentationTree.parse (lines 56-57) and PropertyBagParser.parse (lines
\* 104-105): the guard; what follows it is the loop of SpecTree and SpecParse
parse_guard(arg) ==
    IF arg.none THEN Raised("ValueError") ELSE Result(<<>>)

\* the body of the generator strip_empty_lines
strip_empty_lines(ls) ==
    IF ls.none THEN Raised("ValueError") ELSE Result(SelectSeq(ls.val, NotBlank))

\* the body of the generator strip_comments
strip_comments(ls) ==
    IF ls.none THEN Raised("ValueError") ELSE Result(Map_comment_content(ls.val))

\* the body of the generator parse_includes for lines that are no include
\* directives: line 69 makes a ValueError and does not raise it, and the loop
\* of line 72 iterates over lines
parse_includes(base_path, ls) ==
    IF not(base_path) THEN Raised("ValueError")
    ELSE IF ls.none THEN Raised("TypeError")
    ELSE Result(Map_rstrip(ls.val))

GuardTexts == { <<"a", " ">>, <<" ">>, <<"a", "/", "/", "c">> }
GuardLines == UNION {[1..k -> GuardTexts] : k \in 0..MaxGuardLines}
Functions == {"IndentationTree.parse", "PropertyBagParser.parse"}
Generators == {"strip_empty_lines", "strip_comments", "parse_includes"}

\* a call of one of the entry points: last holds the function and its
\* arguments, then the outcome
GuardInit ==
    /\ \E op \in Functions \cup Generators,
          ls \in {NoneArg} \cup {Arg(l) : l \in GuardLines},
          base_path \in {NoneArg, Arg(<<>>), Arg(<<"b">>)} :
          /\ op # "parse_includes" => base_path = NoneArg
          /\ last = [op |-> op, lines |-> ls, base_path |-> base_path]
    /\ pc = "call"
    /\ lines = <<>>
    /\ nodes = <<>>
    /\ tree_stack = <<>>
    /\ tree = <<>>
    /\ pos = 1
    /\ parents = <<>>
    /\ abstract_props = <<>>
    /\ made = <<>>
    /\ bags = <<>>
    /\ containsCache = <<>>
    /\ getitemCache = <<>>
    /\ nops = 0

Outcome(r) ==
    /\ pc' = IF r.ok THEN "returned" ELSE "raised"
    /\ last' = [op |-> last.op, lines |-> last.lines, base_path |-> last.base_path,
                ok |-> r.ok, res |-> r.res]
    /\ UNCHANGED <<bags, containsCache, getitemCache, nops, parservars_but_pc>>

\* the call of a plain function runs its guard
CallFunction ==
    /\ pc = "call"
    /\ last.op \in Functions
    /\ Outcome(parse_guard(last.lines))

\* the call of a generator function runs nothing: it returns the generator
CallGenerator ==
    /\ pc = "call"
    /\ last.op \in Generators
    /\ pc' = "generator"
    /\ UNCHANGED <<bags, containsCache, getitemCache, nops, last, parservars_but_pc>>

\* the caller consumes the generator: list(...)
Consume ==
    /\ pc = "generator"
    /\ Outcome(IF last.op = "strip_empty_lines" THEN strip_empty_lines(last.lines)
               ELSE IF last.op = "strip_comments" THEN strip_comments(last.lines)
               ELSE parse_includes(last.base_path, last.lines))

GuardNext == CallFunction \/ CallGenerator \/ Consume

SpecGuard == GuardInit /\ [][GuardNext]_vars

\* ------------------------------------------------- the library's operations
\* the base lists a caller can hand to the constructor
BaseLists(bs) ==
    {l \in UNION {[1..k -> BagIds(bs)] : k \in 0..Len(bs)} :
        \A i, j \in DOMAIN l : i # j => l[i] # l[j]}

Init ==
    /\ bags = <<>>
    /\ containsCache = <<>>
    /\ getitemCache = <<>>
    /\ nops = 0
    /\ last = [op |-> "init"]
    /\ lines = <<>>
    /\ nodes = <<>>
    /\ tree_stack = <<>>
    /\ tree = <<>>
    /\ pos = 1
    /\ parents = <<>>
    /\ abstract_props = <<>>
    /\ pc = "library"
    /\ made = <<>>

\* PropertyBag(name, value, base_props), the value one of values
NewOp(values) ==
    /\ Len(bags) < MaxBags
    /\ \E name \in Names, value \in values, base_props \in BaseLists(bags) :
          /\ bags' = Append(bags, PropertyBag(name, value, base_props))
          /\ last' = [op |-> "new", bag |-> Len(bags) + 1]
    /\ UNCHANGED <<containsCache, getitemCache, parservars>>

\* self.add(prop)
AddOp ==
    /\ \E self \in BagIds(bags), prop \in BagIds(bags) :
          /\ bags' = add(bags, self, prop)
          /\ last' = [op |-> "add", bag |-> self, prop |-> prop]
    /\ UNCHANGED <<containsCache, getitemCache, parservars>>

\* self.count
CountOp ==
    /\ \E self \in BagIds(bags) :
          last' = [op |-> "count", bag |-> self, res |-> count(bags, self)]
    /\ UNCHANGED <<bags, containsCache, getitemCache, parservars>>

\* what a read leaves behind: the tables and the answer
Returned(op, self, item, r) ==
    /\ containsCache' = r.cc
    /\ getitemCache' = r.gc
    /\ last' = [op |-> op, bag |-> self, item |-> item, ok |-> r.ok, res |-> r.res]

\* a caller that builds, reads and mutates in any order, MaxOps calls in all
Step == nops < MaxOps /\ nops' = nops + 1

New == Step /\ NewOp(Values)

Add == Step /\ AddOp

Count == Step /\ CountOp

\* self[item]
Lookup ==
    /\ Step
    /\ \E self \in BagIds(bags), item \in Names :
          Returned("lookup", self, item,
                   [ok |-> TRUE] @@ getitem(bags, containsCache, getitemCache, self, item))
    /\ UNCHANGED <<bags, parservars>>

\* item in self
Membership ==
    /\ Step
    /\ \E self \in BagIds(bags), item \in Names :
          Returned("in", self, item,
                   [ok |-> TRUE, gc |-> getitemCache]
                       @@ contains(bags, containsCache, self, item))
    /\ UNCHANGED <<bags, parservars>>

\* self.get(name, default)
Get ==
    /\ Step
    /\ \E self \in BagIds(bags), name \in Names, default \in Defaults :
          Returned("get", self, name,
                   get(bags, containsCache, getitemCache, self, name, default))
    /\ UNCHANGED <<bags, parservars>>

\* self.getint(name, default)
GetInt ==
    /\ Step
    /\ \E self \in BagIds(bags), name \in Names, default \in Defaults :
          Returned("getint", self, name,
                   getint(bags, containsCache, getitemCache, self, name, default))
    /\ UNCHANGED <<bags, parservars>>

\* self.convert(name, convertor, default)
Convert ==
    /\ Step
    /\ \E self \in BagIds(bags), name \in Names, default \in Defaults :
          Returned("convert", self, name,
                   convert(bags, containsCache, getitemCache, self, name, default))
    /\ UNCHANGED <<bags, parservars>>

Next == New \/ Add \/ Lookup \/ Membership \/ Count \/ Get \/ GetInt \/ Convert

Spec == Init /\ [][Next]_vars

\* a caller that builds a graph of bags in MaxBuildOps calls and counts; the
\* value of its bags is the default of the constructor
BuildStep == nops < MaxBuildOps /\ nops' = nops + 1

BuildNew == BuildStep /\ NewOp({<<>>})

BuildAdd == BuildStep /\ AddOp

BuildCount == CountOp /\ UNCHANGED nops

BuildNext == BuildNew \/ BuildAdd \/ BuildCount

SpecBuild == Init /\ [][BuildNext]_vars

\* a caller that builds a graph of bags completely, the bags first and then
\* their children, in at most MaxFrozenOps calls, and reads it afterwards; no
\* read has been made while both tables are empty
NoReadYet == containsCache = <<>> /\ getitemCache = <<>>
NoAddYet == \A b \in BagIds(bags) : bags[b].children = EmptyMap

FrozenStep == nops < MaxFrozenOps /\ nops' = nops + 1
ReadStep == nops < MaxFrozenOps + MaxReads /\ nops' = nops + 1

FrozenNew == NoReadYet /\ NoAddYet /\ FrozenStep /\ NewOp({<<>>})

FrozenAdd == NoReadYet /\ FrozenStep /\ AddOp

FrozenLookup ==
    /\ ReadStep
    /\ \E self \in BagIds(bags), item \in Names :
          Returned("lookup", self, item,
                   [ok |-> TRUE] @@ getitem(bags, containsCache, getitemCache, self, item))
    /\ UNCHANGED <<bags, parservars>>

FrozenMembership ==
    /\ ReadStep
    /\ \E self \in BagIds(bags), item \in Names :
          Returned("in", self, item,
                   [ok |-> TRUE, gc |-> getitemCache]
                       @@ contains(bags, containsCache, self, item))
    /\ UNCHANGED <<bags, parservars>>

FrozenNext == FrozenNew \/ FrozenAdd \/ FrozenLookup \/ FrozenMembership

SpecFrozen == Init /\ [][FrozenNext]_vars

\* ------------------------------------------------------------ properties
\* what a read made now, with the tables as they are, would answer
LookupNow(self, item) == getitem(bags, containsCache, getitemCache, self, item).res
MemberNow(self, item) == contains(bags, containsCache, self, item).res

\* the name can be seen from the bag: it is a direct child's name or can be
\* seen from one of the bases
RECURSIVE VisibleNames(_, _)
VisibleNames(bs, self) ==
    (DOMAIN bs[self].children)
        \cup UNION {VisibleNames(bs, bs[self].bases[k]) : k \in 1..Len(bs[self].bases)}

Visible(self, item) == item \in VisibleNames(bags, self)

\* the last-declared base from which the name can be seen (0: none)
LastBaseWith(bs, self, item) ==
    LET ks == {k \in 1..Len(bs[self].bases) : item \in VisibleNames(bs, bs[self].bases[k])}
    IN  IF ks = {} THEN 0 ELSE CHOOSE k \in ks : \A l \in ks : l <= k

\* C1: immediately after add(child) the lookup bag[child.name] returns that
\* very child, whatever lookups and membership tests were made before.
C1_AddLastWriteWins ==
    last.op = "add" => LookupNow(last.bag, bags[last.prop].name) = last.prop

\* C2: for every bag and name the membership test is true exactly when the
\* lookup returns a bag.
C2_MembershipIffLookup ==
    \A self \in BagIds(bags), item \in Names :
        MemberNow(self, item) <=> LookupNow(self, item) # None

\* what get, getint and convert answer now: [ok, res]
Answer(r) == [ok |-> r.ok, res |-> r.res]
GetNow(self, name, default) ==
    Answer(get(bags, containsCache, getitemCache, self, name, default))
GetIntNow(self, name, default) ==
    Answer(getint(bags, containsCache, getitemCache, self, name, default))
ConvertNow(self, name, default) ==
    Answer(convert(bags, containsCache, getitemCache, self, name, default))

\* C3: get, getint and convert return the (converted) value of the bag the
\* lookup resolves when the name is visible, and the default, without
\* failing, when it is not.
C3_GetValueOrDefault ==
    \A self \in BagIds(bags), name \in Names, default \in Defaults :
        IF Visible(self, name)
        THEN /\ LookupNow(self, name) # None
             /\ GetNow(self, name, default) = Plain(bags[LookupNow(self, name)].value)
             /\ GetIntNow(self, name, default) = int(bags[LookupNow(self, name)].value)
             /\ ConvertNow(self, name, default)
                    = Convertor(bags[LookupNow(self, name)].value)
        ELSE /\ GetNow(self, name, default) = [ok |-> TRUE, res |-> default]
             /\ GetIntNow(self, name, default) = [ok |-> TRUE, res |-> default]
             /\ ConvertNow(self, name, default) = [ok |-> TRUE, res |-> default]

\* C4: the lookup returns the direct child of that name if there is one,
\* otherwise the lookup on the last-declared base from which the name is
\* visible, otherwise None.
C4_LookupPriority ==
    \A self \in BagIds(bags), item \in Names :
        LookupNow(self, item) =
            IF item \in DOMAIN bags[self].children THEN bags[self].children[item]
            ELSE IF LastBaseWith(bags, self, item) # 0
                 THEN LookupNow(bags[self].bases[LastBaseWith(bags, self, item)], item)
                 ELSE None

\* the bag the overlay rule picks for a visible name: the direct child,
\* else what the last-declared base that shows the name picks
RECURSIVE Chosen(_, _, _)
Chosen(bs, self, item) ==
    IF item \in DOMAIN bs[self].children THEN bs[self].children[item]
    ELSE Chosen(bs, bs[self].bases[LastBaseWith(bs, self, item)], item)

Range(s) == {s[k] : k \in 1..Len(s)}

\* line i was turned into a bag; it starts with "::"; it is a value declaration
Declared(i) == made[i].bag # None
IsAbstractLine(i) ==
    line_regex(tree[i].text).matched /\ line_regex(tree[i].text).abstract
IsValueLine(i) ==
    line_regex(tree[i].text).matched /\ line_regex(tree[i].text).equals

\* line j is a declaration of the same name under the same parent as line i
SameSlot(i, j) ==
    Declared(j) /\ made[j].parent = made[i].parent /\ made[j].name = made[i].name

\* C6: in the result of parse every non-abstract declaration is visible
\* through its parent: the membership test of its name on the parent is
\* true and the lookup returns the bag of the last such line of that name.
\* (Stated for the names that no later `::name = value` line of the same
\* parent declares again.)
C6_ConcreteVisibleThroughParent ==
    pc = "done" =>
        \A i \in 1..Len(tree) :
            (/\ Declared(i)
             /\ ~IsAbstractLine(i)
             /\ \A j \in (i + 1)..Len(tree) :
                    SameSlot(i, j) => IsAbstractLine(j) /\ ~IsValueLine(j))
            => /\ MemberNow(made[i].parent, made[i].name)
               /\ LookupNow(made[i].parent, made[i].name) = made[i].bag

\* the step that turns the line at pos into a collection; into any bag
CollectionTaken == pc = "loop" /\ Len(parents') > Len(parents)
DeclarationTaken == pc = "loop" /\ made' # made

\* the innermost bag of a scope stack that has an entry named n now (0: none),
\* and that entry
Innermost(stack, n) ==
    LET ks == {k \in 1..Len(stack) : n \in VisibleNames(bags, stack[k])}
    IN  IF ks = {} THEN 0 ELSE CHOOSE k \in ks : \A l \in ks : l <= k

Entry(stack, n) == Chosen(bags, stack[Innermost(stack, n)], n)

\* the base names of the collection made by the step
ClauseNames == inherit_names(line_regex(tree[pos].text), made'[pos].name)

\* C7: every inheritance clause resolves to the entry of its name in the
\* innermost bag of the concrete stack that has one when the clause is
\* processed; the abstract stack is consulted only when the concrete stack
\* has none, innermost level first; a name no scope has resolves to nothing.
C7_ResolutionOrder ==
    [][CollectionTaken =>
          \A k \in 1..Len(made'[pos].found) :
              made'[pos].found[k] =
                  IF Innermost(parents, ClauseNames[k]) # 0
                  THEN Entry(parents, ClauseNames[k])
                  ELSE IF Innermost(abstract_props, ClauseNames[k]) # 0
                       THEN Entry(abstract_props, ClauseNames[k])
                       ELSE None]_vars

\* the clauses of the line at pos that name no base
BlankClauses ==
    {k \in 1..Len(line_regex(tree[pos].text).inherits) :
        strip(line_regex(tree[pos].text).inherits[k]) = <<>>}

\* C8: a self-named clause `name ::` resolves, when an enclosing scope has
\* an entry of that name, to a bag of that name that existed before the
\* declaration was created; the new bag is never among its own bases.
C8_SelfNamedResolvesToEarlier ==
    [][CollectionTaken =>
          \A k \in BlankClauses :
              /\ Len(bags) + 1 \notin Range(bags'[Len(bags) + 1].bases)
              /\ made'[pos].found[k] # None =>
                    /\ made'[pos].found[k] \in BagIds(bags)
                    /\ bags[made'[pos].found[k]].name = made'[pos].name
              /\ (\/ Innermost(parents, made'[pos].name) # 0
                  \/ Innermost(abstract_props, made'[pos].name) # 0)
                    => made'[pos].found[k] # None]_vars

\* what a self-named clause can resolve to: an earlier bag of the same name,
\* never the bag being defined (this much holds of every run)
SelfNamedNeverSelf ==
    [][CollectionTaken =>
          \A k \in BlankClauses :
              /\ Len(bags) + 1 \notin Range(bags'[Len(bags) + 1].bases)
              /\ made'[pos].found[k] # None =>
                    /\ made'[pos].found[k] \in BagIds(bags)
                    /\ bags[made'[pos].found[k]].name = made'[pos].name]_vars

\* C9: the bag of every declaration that starts with "::" is registered in
\* the holder of the current level and the children of the concrete parent
\* stay as they were, whatever the form of the declaration.
C9_AbstractNotInParent ==
    [][DeclarationTaken /\ line_regex(tree[pos].text).abstract =>
          /\ made'[pos].name \in DOMAIN bags'[Top(abstract_props)].children
          /\ bags'[Top(abstract_props)].children[made'[pos].name] = made'[pos].bag
          /\ bags'[Top(parents)].children = bags[Top(parents)].children]_vars

\* C10: when no bag of the concrete stack has an entry of a clause's name
\* and a holder of the abstract stack has one, the clause resolves to the
\* abstract bag of the innermost such holder.
C10_AbstractStaysTarget ==
    [][CollectionTaken =>
          \A k \in 1..Len(made'[pos].found) :
              (/\ Innermost(parents, ClauseNames[k]) = 0
               /\ Innermost(abstract_props, ClauseNames[k]) # 0)
              => made'[pos].found[k] = Entry(abstract_props, ClauseNames[k])]_vars

\* the bases a list of clause results leaves: the clauses that found a bag
NotNone(f) == f # None
Resolved(found) == SelectSeq(found, NotNone)

\* C11: the base list of every collection holds the bags its clauses
\* resolved, in clause order, each named as its clause says; its flattened
\* view gives for every visible name the direct child, else the entry of the
\* last-listed base that shows the name, and count counts each name once.
C11_MultipleInheritance ==
    \A i \in 1..Len(tree) :
        (Declared(i) /\ ~IsValueLine(i)) =>
            /\ bags[made[i].bag].bases = Resolved(made[i].found)
            /\ \A k \in 1..Len(made[i].found) :
                  made[i].found[k] # None =>
                      bags[made[i].found[k]].name
                          = inherit_names(line_regex(tree[i].text), made[i].name)[k]
            /\ DOMAIN flatten_properties(bags, made[i].bag)
                  = VisibleNames(bags, made[i].bag)
            /\ \A item \in VisibleNames(bags, made[i].bag) :
                  flatten_properties(bags, made[i].bag)[item]
                      = Chosen(bags, made[i].bag, item)
            /\ count(bags, made[i].bag) = Cardinality(VisibleNames(bags, made[i].bag))

\* parse has returned a collection with two different bases that both show
\* a name the collection does not define: its view has the entry of the
\* second base
C11_Witness ==
    /\ pc = "done"
    /\ \E i \in 1..Len(tree) :
          /\ Declared(i)
          /\ Len(bags[made[i].bag].bases) = 2
          /\ bags[made[i].bag].bases[1] # bags[made[i].bag].bases[2]
          /\ \E item \in VisibleNames(bags, bags[made[i].bag].bases[1]) :
                /\ item \in VisibleNames(bags, bags[made[i].bag].bases[2])
                /\ item \notin DOMAIN bags[made[i].bag].children
                /\ flatten_properties(bags, made[i].bag)[item]
                      = Chosen(bags, bags[made[i].bag].bases[2], item)
                /\ flatten_properties(bags, made[i].bag)[item]
                      # Chosen(bags, bags[made[i].bag].bases[1], item)

\* the lines that enclose line j, and the nearest of them (0: the root's level)
Ancestors(j) ==
    {i \in 1..(j - 1) : \A k \in (i + 1)..j : tree[k].indent > tree[i].indent}

ParentLine(j) ==
    IF Ancestors(j) = {} THEN 0
    ELSE CHOOSE i \in Ancestors(j) : \A l \in Ancestors(j) : l <= i

\* line j is nested, at some depth, under a value declaration
UnderValue(j) == \E i \in Ancestors(j) : IsValueLine(i)

\* the parser has a step to take: the first call, a line of the running
\* frame that the line grammar matches, or the end of the frame
CanGoOn ==
    \/ pc = "start"
    \/ /\ pc = "loop"
       /\ IF pos > Len(tree) THEN TRUE
          ELSE IF tree[pos].indent < Level THEN TRUE
          ELSE tree[pos].indent = Level /\ line_regex(tree[pos].text).matched

\* the step made a collection one of whose clauses found nothing
UnresolvedTaken ==
    CollectionTaken /\ \E k \in 1..Len(made'[pos].found) : made'[pos].found[k] = None

AddsToParent(j) == Declared(j) /\ (IsValueLine(j) \/ ~IsAbstractLine(j))

\* the last line so far that added a bag of line i's name to line i's parent
LastInSlot(i) ==
    CHOOSE j \in 1..Len(tree) :
        /\ AddsToParent(j) /\ SameSlot(i, j)
        /\ \A l \in (j + 1)..Len(tree) : ~(AddsToParent(l) /\ SameSlot(i, l))

\* the bags the lines so far account for: the root and the holder of the top
\* level, one bag for a value declaration, a bag and a holder for a collection
BagsMade ==
    2 + Cardinality({i \in 1..Len(tree) : Declared(i)})
      + Cardinality({i \in 1..Len(tree) : Declared(i) /\ ~IsValueLine(i)})

\* line i is `name = value` with a name and a value on the line
IsLeafLine(i) ==
    /\ line_regex(tree[i].text).matched
    /\ line_regex(tree[i].text).equals
    /\ line_regex(tree[i].text).hasvalue
    /\ strip(line_regex(tree[i].text).name) # <<>>

\* C13: a line `name = value` makes a leaf with the trimmed name and the
\* trimmed value, without children and bases, held by the parent's children
\* under its name until a later line of the parent declares the name again;
\* the lines nested under it make no bag anywhere.
C13_LeafValue ==
    /\ pc # "start" => Len(bags) = BagsMade
    /\ \A i \in 1..Len(tree) :
          IsLeafLine(i) =>
              /\ \A j \in (i + 1)..Len(tree) : i \in Ancestors(j) => ~Declared(j)
              /\ Declared(i) =>
                    /\ bags[made[i].bag].name = strip(line_regex(tree[i].text).name)
                    /\ bags[made[i].bag].value = strip(line_regex(tree[i].text).value)
                    /\ bags[made[i].bag].bases = <<>>
                    /\ DOMAIN bags[made[i].bag].children = {}
                    /\ count(bags, made[i].bag) = 0
                    /\ made[i].name \in DOMAIN bags[made[i].parent].children
                    /\ bags[made[i].parent].children[made[i].name]
                          = made[LastInSlot(i)].bag

\* parse has returned from an input with a leaf inside a collection that has
\* blanks around its value and a line nested under it
C13_Witness ==
    /\ pc = "done"
    /\ \E i \in 1..(Len(tree) - 1) :
          /\ IsLeafLine(i) /\ Declared(i)
          /\ made[i].parent # 1
          /\ line_regex(tree[i].text).value # strip(line_regex(tree[i].text).value)
          /\ bags[made[i].bag].value = <<"7">>
          /\ i \in Ancestors(i + 1)

\* the texts of the lines js written one after the other with one space
\* between consecutive texts
RECURSIVE JoinedBySpace(_)
JoinedBySpace(js) ==
    IF js = <<>> THEN <<>>
    ELSE IF Len(js) = 1 THEN tree[js[1]].text
    ELSE tree[js[1]].text \o <<" ">> \o JoinedBySpace(Tail(js))

\* line i is `name =` with nothing after the "="
IsMultilineLine(i) ==
    /\ line_regex(tree[i].text).matched
    /\ line_regex(tree[i].text).equals
    /\ ~line_regex(tree[i].text).hasvalue

\* C14: a line `name =` makes a bag whose value is the texts of its directly
\* nested lines in their order with exactly one space between consecutive
\* lines; it has no children, and the nested lines make no bag.
C14_MultilineJoin ==
    \A i \in 1..Len(tree) :
        IsMultilineLine(i) =>
            /\ \A j \in (i + 1)..Len(tree) : i \in Ancestors(j) => ~Declared(j)
            /\ Declared(i) =>
                  /\ bags[made[i].bag].value = JoinedBySpace(children(tree, i))
                  /\ count(bags, made[i].bag) = 0

\* ------------------------------------- properties of IndentationTree.parse
\* the nodes that have node c among their children
ParentsOf(c) ==
    {n \in 1..Len(nodes) : \E k \in 1..Len(nodes[n].children) : nodes[n].children[k] = c}

\* the raw indent of the line of node n (n > 1)
RawIndent(n) == Len(indent_regex(lines[n - 1]).indent)

\* C15: the tree that IndentationTree.parse returns has a root of depth -1
\* (without children for no lines), every other node is the child of exactly
\* one node, and its depth is that node's depth + 1, whatever the widths of
\* the raw indents.
C15_DepthIsParentPlusOne ==
    pc = "treedone" =>
        /\ nodes[1].indent = -1
        /\ ParentsOf(1) = {}
        /\ Len(nodes) = Len(lines) + 1
        /\ lines = <<>> => nodes[1].children = <<>>
        /\ \A c \in 2..Len(nodes) :
              /\ Cardinality(ParentsOf(c)) = 1
              /\ \A n \in ParentsOf(c) : nodes[c].indent = nodes[n].indent + 1

\* the tree has been returned with two nodes of the same depth below the
\* top level whose lines have different raw indents
C15_Witness ==
    /\ pc = "treedone"
    /\ \E c, d \in 2..Len(nodes) :
          /\ nodes[c].indent = nodes[d].indent
          /\ nodes[c].indent > 0
          /\ RawIndent(c) # RawIndent(d)

\* the step of IndentationTree.parse that gives the line Len(nodes) its node
LineTaken == pc = "tree" /\ Len(nodes') = Len(nodes) + 1

\* the node under which the line k belongs: the node of the nearest line
\* before it with a strictly smaller raw indent, the root when there is none
Shallower(k) == {j \in 1..(k - 1) : RawIndent(j + 1) < RawIndent(k + 1)}

NearestShallower(k) ==
    IF Shallower(k) = {} THEN 1
    ELSE (CHOOSE j \in Shallower(k) : \A l \in Shallower(k) : l <= j) + 1

\* C16: each line's node is appended as the last child of the node of the
\* nearest preceding line with a strictly smaller raw indent, or of the
\* root; no other node gets it, so a line with the indent of the line before
\* it is its sibling; the root stays at the bottom of the stack, which is
\* never empty.
C16_NearestShallowerParent ==
    /\ [][LineTaken =>
            /\ nodes'[NearestShallower(Len(nodes))].children
                  = Append(nodes[NearestShallower(Len(nodes))].children, Len(nodes) + 1)
            /\ \A n \in 1..Len(nodes) :
                  n # NearestShallower(Len(nodes)) =>
                      nodes'[n].children = nodes[n].children
            /\ nodes'[Len(nodes) + 1].children = <<>>
            /\ (Len(nodes) > 1 /\ RawIndent(Len(nodes) + 1) = RawIndent(Len(nodes))) =>
                  NearestShallower(Len(nodes)) \in ParentsOf(Len(nodes))
            /\ tree_stack'[Len(tree_stack')] = Len(nodes) + 1]_vars
    /\ [](pc \in {"tree", "treedone"} => tree_stack # <<>> /\ tree_stack[1] = 1)

\* a line with the raw indent of the line before it, both nested, has got
\* its node: the two are children of the same node
C16_Witness ==
    /\ pc = "tree"
    /\ \E c \in 3..Len(nodes) :
          /\ RawIndent(c) = RawIndent(c - 1)
          /\ RawIndent(c) > 0
          /\ ParentsOf(c) = ParentsOf(c - 1)
          /\ ParentsOf(c) # {1}

\* ------------------------------------------ properties of the entry points
\* the call has an absent required input: no lines (no tree), or no
\* base_path for parse_includes
AbsentInput ==
    last.lines.none \/ (last.op = "parse_includes" /\ last.base_path.none)

\* C17: a call with an absent required input ends, no later than when its
\* result is consumed, with ValueError raised to the caller.
C17_AbsentInputRaisesValueError ==
    (pc \in {"returned", "raised"} /\ AbsentInput) =>
        (~last.ok /\ last.res = <<"ValueError">>)

\* -------------------------------------------- properties of the scope stacks
\* the nesting depth of line j, and the bag of the line that encloses it
Depth(j) == Cardinality(Ancestors(j))
EnclosingBag(j) == IF ParentLine(j) = 0 THEN 1 ELSE made[ParentLine(j)].bag

\* the loop has a line before it that it has not left to an outer frame
Classifying == pc = "loop" /\ pos <= Len(tree) /\ tree[pos].indent >= Level

\* the step is the exit of a frame
ReturnTaken == pc = "loop" /\ pos' = pos /\ bags' = bags /\ made' = made

\* C18: when a line is classified, both stacks have the length of the
\* line's nesting depth plus one and the top of the concrete stack is the bag
\* of the enclosing line (the root for a top-level line); a collection pushes
\* its bag and one fresh empty holder, a value declaration pushes nothing,
\* the exit of a frame pops one entry of each stack, and both stacks are
\* empty when parse has returned.
C18_ScopeStackDiscipline ==
    /\ [](Classifying =>
            /\ Len(parents) = Depth(pos) + 1
            /\ Len(abstract_props) = Depth(pos) + 1
            /\ Top(parents) = EnclosingBag(pos))
    /\ [][(DeclarationTaken /\ ~IsValueLine(pos)) =>
            /\ parents' = Append(parents, made'[pos].bag)
            /\ Len(abstract_props') = Len(abstract_props) + 1
            /\ SubSeq(abstract_props', 1, Len(abstract_props)) = abstract_props
            /\ Top(abstract_props') \in BagIds(bags') \ BagIds(bags)
            /\ bags'[Top(abstract_props')] = PropertyBag(AbstractName, <<>>, <<>>)]_vars
    /\ [][(DeclarationTaken /\ IsValueLine(pos)) =>
            (parents' = parents /\ abstract_props' = abstract_props)]_vars
    /\ [][ReturnTaken =>
            /\ parents # <<>> /\ abstract_props # <<>>
            /\ parents' = SubSeq(parents, 1, Len(parents) - 1)
            /\ abstract_props' = SubSeq(abstract_props, 1, Len(abstract_props) - 1)]_vars
    /\ [](pc = "done" => (parents = <<>> /\ abstract_props = <<>>))

\* the parse has returned from a line nested two levels deep
C18_Witness ==
    /\ pc = "done"
    /\ parents = <<>> /\ abstract_props = <<>>
    /\ \E j \in 1..Len(tree) : Depth(j) = 2 /\ Declared(j) /\ ~IsValueLine(j)

\* ---------------------------------------------- properties of the base graph
\* the bags that bag b reaches through base references in at most n steps
RECURSIVE BaseReach(_, _)
BaseReach(b, n) ==
    IF n = 0 THEN {}
    ELSE Range(bags[b].bases) \cup
         UNION {BaseReach(c, n - 1) : c \in Range(bags[b].bases)}

\* C19: every bag in the base list of a line's bag is the bag of an earlier
\* line, no bag reaches itself through base references, and the flattened
\* view of every bag is computed, with names of the bags only.
C19_BaseGraphAcyclic ==
    /\ \A j \in 1..Len(tree) : Declared(j) =>
          \A b \in Range(bags[made[j].bag].bases) :
              \E i \in 1..(j - 1) : Declared(i) /\ made[i].bag = b
    /\ \A b \in BagIds(bags) :
          /\ \A c \in Range(bags[b].bases) : c \in BagIds(bags) /\ c < b
          /\ b \notin BaseReach(b, Len(bags))
    /\ \A b \in BagIds(bags) :
          /\ DOMAIN flatten_properties(bags, b) \subseteq {bags[c].name : c \in BagIds(bags)}
          /\ count(bags, b) <= Len(bags)

\* the parse has returned a bag that has the bag of its enclosing line as a
\* base
C19_Witness ==
    /\ pc = "done"
    /\ \E j \in 1..Len(tree) :
          /\ Declared(j) /\ ParentLine(j) # 0
          /\ made[ParentLine(j)].bag \in Range(bags[made[j].bag].bases)

\* the bags that are in the base list of some bag of bs
Referenced(bs) == UNION {Range(bs[b].bases) : b \in BagIds(bs)}

\* C20: a bag that is in the base list of a bag, the bag the step creates
\* included, gets no add: no step changes the children of such a bag.
C20_ReferencedBaseNotMutated ==
    [][\A b \in Referenced(bags') \cap BagIds(bags) :
          bags'[b].children = bags[b].children]_vars

\* ------------------------------------------- properties of the line grammar
\* the text has "="; the text before the first "=" and the text after it
HasEquals(t) == \E i \in 1..Len(t) : t[i] = "="
FirstEquals(t) == CHOOSE i \in 1..Len(t) : t[i] = "=" /\ \A k \in 1..(i - 1) : t[k] # "="
BeforeEquals(t) == SubSeq(t, 1, FirstEquals(t) - 1)
AfterEquals(t) == SubSeq(t, FirstEquals(t) + 1, Len(t))

\* line j opened a level: the bag after its bag is the holder of that level
OpenedLevel(j) ==
    /\ made[j].bag + 1 \in BagIds(bags)
    /\ bags[made[j].bag + 1].name = AbstractName

\* C21: the bag of every line with "=" is a value declaration named by the
\* text before the first "=", with the text after it as its value (the
\* nested texts when nothing is after it), and it opens no level; the bag of
\* a line without "=" is a collection, with no value and a level of its own.
C21_EqualsMakesValue ==
    \A j \in 1..Len(tree) : Declared(j) =>
        IF HasEquals(tree[j].text)
        THEN /\ strip(BeforeEquals(tree[j].text)) # <<>> =>
                    bags[made[j].bag].name = strip(BeforeEquals(tree[j].text))
             /\ bags[made[j].bag].value =
                    (IF AfterEquals(tree[j].text) # <<>>
                     THEN strip(AfterEquals(tree[j].text))
                     ELSE join_texts(tree, children(tree, j), <<>>))
             /\ ~OpenedLevel(j)
        ELSE /\ bags[made[j].bag].value = <<>>
             /\ OpenedLevel(j)

\* ------------------------------------------ properties of anonymous naming
\* the name portion of line i is blank
IsAnonymousLine(i) ==
    line_regex(tree[i].text).matched /\ strip(line_regex(tree[i].text).name) = <<>>

\* the step turned a line with a blank name portion into a bag
AnonymousTaken == DeclarationTaken /\ IsAnonymousLine(pos)

\* C22 as stated: the name made for a blank name portion is the decimal
\* number of direct children the parent has when the declaration is made.
C22_AnonymousNameIsDirectChildren ==
    [][AnonymousTaken =>
          /\ made'[pos].name = str(Cardinality(DOMAIN bags[Top(parents)].children))
          /\ bags'[made'[pos].bag].name = made'[pos].name]_vars

\* C22 amended: the name made for a blank name portion is the decimal number
\* of distinct names visible from the parent when the declaration is made,
\* its direct children and the names its bases show.
C22_AnonymousNameIsCount ==
    [][AnonymousTaken =>
          /\ made'[pos].name = str(Cardinality(VisibleNames(bags, Top(parents))))
          /\ bags'[made'[pos].bag].name = made'[pos].name]_vars

\* a declaration with a blank name portion was made in a bag with no direct
\* child and a base that shows a name: its name is "1"
C22_Witness ==
    \E j \in 1..Len(tree) :
        /\ Declared(j) /\ IsAnonymousLine(j)
        /\ made[j].name = <<"1">>
        /\ bags[made[j].parent].bases # <<>>
        /\ DOMAIN bags[made[j].parent].children = {<<"1">>}

\* ------------------------------------------- properties of base resolution
\* bag c is a direct child of bag s
DirectChild(s, c) == \E n \in DOMAIN bags[s].children : bags[s].children[n] = c

\* C23: every base a collection step puts into the base list of the new bag
\* is, when the step resolves it, a direct child of a bag on the concrete
\* stack or of a holder on the abstract stack.
C23_BasesAreDirectChildren ==
    [][CollectionTaken =>
          \A k \in 1..Len(made'[pos].found) :
              made'[pos].found[k] # None =>
                  \E s \in Range(parents) \cup Range(abstract_props) :
                      DirectChild(s, made'[pos].found[k])]_vars

\* ------------------------------- properties of a graph built before its reads
\* C24: for a graph built completely before its first read, a lookup made
\* now returns for every bag and name the bag the flattened view maps the
\* name to, and None exactly for the names the flattened view does not have.
C24_LookupAgreesWithFlattened ==
    \A self \in BagIds(bags), item \in Names :
        LookupNow(self, item) =
            IF item \in DOMAIN flatten_properties(bags, self)
            THEN flatten_properties(bags, self)[item]
            ELSE None

\* a read has been made of a graph in which a bag has two bases that show
\* the same name with different bags
C24_Witness ==
    /\ ~NoReadYet
    /\ \E self \in BagIds(bags), item \in Names :
          /\ Len(bags[self].bases) = 2
          /\ item \notin DOMAIN bags[self].children
          /\ item \in DOMAIN flatten_properties(bags, bags[self].bases[1])
          /\ item \in DOMAIN flatten_properties(bags, bags[self].bases[2])
          /\ flatten_properties(bags, bags[self].bases[1])[item]
                # flatten_properties(bags, bags[self].bases[2])[item]

\* ------------------------------------------ properties of the reads' history
\* what the reads answer after a history that built the same graph and made
\* no read before: a function of the children and bases alone
LookupFresh(self, item) == getitem(bags, <<>>, <<>>, self, item).res
MemberFresh(self, item) == contains(bags, <<>>, self, item).res

\* C25: a lookup or a membership test made now answers, for every bag and
\* name, what it answers after any other history that left the same graph,
\* the history without earlier reads included.
C25_ReadsHistoryIndependent ==
    \A self \in BagIds(bags), item \in Names :
        /\ LookupNow(self, item) = LookupFresh(self, item)
        /\ MemberNow(self, item) = MemberFresh(self, item)

\* --------------------------------------- properties of the abstract scopes
\* line i is an abstract declaration made inside a collection whose nested
\* lines are exhausted: the loop is at a line after them, or has returned
ClosedAbstract(i) ==
    /\ Declared(i) /\ IsAbstractLine(i)
    /\ ParentLine(i) # 0
    /\ pos > SubtreeEnd(tree, ParentLine(i))

\* the bags of the parse result: the root and the bags of the lines
ResultBags == {1} \cup {made[j].bag : j \in {l \in 1..Len(tree) : Declared(l)}}

\* no clause that the concrete stack does not answer resolves to the bag of
\* an abstract declaration whose collection is closed
ClosedAbstractNotTarget ==
    [][CollectionTaken =>
          \A k \in 1..Len(made'[pos].found) :
              (/\ made'[pos].found[k] # None
               /\ \A s \in Range(parents) : ~MemberNow(s, ClauseNames[k]))
              => /\ \E h \in Range(abstract_props) : DirectChild(h, made'[pos].found[k])
                 /\ \A i \in 1..Len(tree) :
                       ClosedAbstract(i) => made'[pos].found[k] # made[i].bag]_vars

\* C26: an abstract bag declared inside a collection is a target of the
\* abstract stack only while the collection's level is open, and it is a
\* direct child of no bag of the parse result.
C26_AbstractScopeClosure ==
    /\ ClosedAbstractNotTarget
    /\ [](\A i \in 1..Len(tree) :
            (Declared(i) /\ IsAbstractLine(i) /\ ParentLine(i) # 0) =>
                \A b \in ResultBags : ~DirectChild(b, made[i].bag))

====
